---- MODULE Spec2Model ----
(***************************************************************************)
(* Trading-simulation kernel of the backtester: the per-bar loop of        *)
(* BacktestEngine together with Portfolio, PositionManager, RiskManager,   *)
(* OrderExecutor, SlippageModel and the strategy's stop/exit policies.     *)
(*                                                                         *)
(* Money and prices are integers (ticks).  Bar prices are multiples of     *)
(* 10000 and every rate is a fraction n/PctDen or n/rate_den, so that every *)
(* product price*rate and notional*rate of the code is an exact integer.   *)
(* Quantities are whole units.  Timestamps are minutes; a calendar date is *)
(* ts \div MinutesPerDay.                                                  *)
(***************************************************************************)
EXTENDS Integers, Sequences, FiniteSets, TLC

\* ---------------------------------------------------------------- bounds
MaxBars == 4

\* ------------------------------------------------------------- constants
WarmupBars == 9
EquityStride == 10
MaxHistory == 1000
MinutesPerDay == 1440
PctDen == 100
InitialCapital == 100000
AtrMultiplier == 2
EntryAtrMultiplier == 2

NoTime == 0 - 1
NoPrice == 0 - 1
\* df.index.get_loc(key) when key occurs more than once in the index: the
\* result is a slice, not an integer position.
NoLoc == 0 - 1

\* --------------------------------------------------------- input domains
Prices == {10000, 20000}
Atrs == {0, 2500, 5000}
Bands == {<<10000, 20000>>, <<20000, 20000>>}
Volumes == {0, 1}
Gaps == {1, MinutesPerDay}
\* run() reads the index as it is given: a timestamp may repeat.
AnyGaps == {0, 1, MinutesPerDay}
Regimes == {"bull", "bear", "sideways"}

Date(ts) == ts \div MinutesPerDay
Max(a, b) == IF a >= b THEN a ELSE b
Min(a, b) == IF a <= b THEN a ELSE b
Abs(a) == IF a < 0 THEN 0 - a ELSE a
Last(s) == s[Len(s)]

\* ---------------------------------------------------------- configuration
\* One record per run: the options the kernel reads from its config dict.
BaseConfig ==
  [ max_open_positions |-> 1,
    max_drawdown_num   |-> 20,      \* risk.portfolio.max_drawdown_limit = 20/100
    daily_loss_num     |-> 5,       \* risk.portfolio.daily_loss_limit   =  5/100
    max_daily_trades   |-> 1,
    sizing_method      |-> "fixed",
    fixed_quantity     |-> 1,
    base_size          |-> 1,
    risk_num           |-> 10,      \* account_risk_per_trade = 10/100
    rate_den           |-> 100,     \* denominator of the execution-cost rates
    slippage_model     |-> "fixed_pct",
    fixed_pct_num      |-> 1,       \* slippage.fixed_pct = 1/rate_den
    base_slippage_num  |-> 1,
    volume_impact_num  |-> 1,
    commission_type    |-> "percentage",
    taker_num          |-> 1,       \* commission.taker = 1/rate_den
    fixed_commission   |-> 50,
    regime_exit        |-> FALSE,
    time_exit          |-> FALSE,
    max_bars           |-> 2,
    update_on          |-> "favorable_move",
    kelly_fraction_num |-> 25,      \* kelly.fraction = 25/100
    lookback_trades    |-> 1 ]

Configs ==
  { BaseConfig,
    [BaseConfig EXCEPT !.max_open_positions = 0],
    [BaseConfig EXCEPT !.slippage_model = "none", !.fixed_quantity = 2,
                       !.regime_exit = TRUE],
    [BaseConfig EXCEPT !.time_exit = TRUE, !.update_on = "always",
                       !.commission_type = "fixed", !.fixed_quantity = 2],
    [BaseConfig EXCEPT !.sizing_method = "risk_pct",
                       !.slippage_model = "volume_based"],
    [BaseConfig EXCEPT !.commission_type = "tiered",
                       !.sizing_method = "volatility_adjusted"] }

\* ------------------------------------------------------- SlippageModel
calculate_fixed_pct_as_amount(c, price) == c.fixed_pct_num

calculate_fixed_pct(c, price) == (price * c.fixed_pct_num) \div c.rate_den

calculate_volume_based(c, price, quantity, volume) ==
  IF volume = 0
  THEN calculate_fixed_pct(c, price)
  ELSE (price * (c.base_slippage_num * volume + quantity * c.volume_impact_num))
         \div (c.rate_den * volume)

calculate_historical(c, price, quantity, side) == calculate_fixed_pct(c, price)

calculate_slippage(c, price, quantity, side, volume) ==
  CASE c.slippage_model = "none"         -> 0
    [] c.slippage_model = "fixed_pct"    -> calculate_fixed_pct(c, price)
    [] c.slippage_model = "volume_based" -> calculate_volume_based(c, price, quantity, volume)
    [] c.slippage_model = "historical"   -> calculate_historical(c, price, quantity, side)
    [] OTHER                             -> calculate_fixed_pct(c, price)

\* ------------------------------------------------------- OrderExecutor
calculate_commission_default_zero(c, trade_value) ==
  CASE c.commission_type = "percentage" ->
         [ok |-> TRUE, value |-> (trade_value * c.taker_num) \div c.rate_den]
    [] c.commission_type = "fixed" ->
         [ok |-> TRUE, value |-> c.fixed_commission]
    [] OTHER -> [ok |-> TRUE, value |-> 0]

\* A raised ValueError is the result [ok |-> FALSE].
calculate_commission(c, trade_value) ==
  CASE c.commission_type = "percentage" ->
         [ok |-> TRUE, value |-> (trade_value * c.taker_num) \div c.rate_den]
    [] c.commission_type = "fixed" ->
         [ok |-> TRUE, value |-> c.fixed_commission]
    [] OTHER -> [ok |-> FALSE, value |-> 0]

FailedFill ==
  [ok |-> FALSE, fill_price |-> 0, fill_quantity |-> 0, commission |-> 0, slippage |-> 0]

execute_order_sell_adds(c, order, current_price, volume) ==
  IF order.order_type \notin {"market", "limit"}
       \/ (order.order_type = "limit" /\ order.limit_price = NoPrice)
  THEN FailedFill
  ELSE LET raw == IF order.order_type = "market" THEN current_price
                  ELSE order.limit_price
           slippage == calculate_slippage(c, raw, order.quantity, order.side, volume)
           fill_price == raw + slippage
           commission == calculate_commission(c, fill_price * order.quantity)
       IN IF commission.ok
          THEN [ok |-> TRUE, fill_price |-> fill_price,
                fill_quantity |-> order.quantity,
                commission |-> commission.value, slippage |-> slippage]
          ELSE FailedFill

execute_order(c, order, current_price, volume) ==
  IF order.order_type \notin {"market", "limit"}
       \/ (order.order_type = "limit" /\ order.limit_price = NoPrice)
  THEN FailedFill
  ELSE LET raw == IF order.order_type = "market" THEN current_price
                  ELSE order.limit_price
           slippage == calculate_slippage(c, raw, order.quantity, order.side, volume)
           fill_price == IF order.side = "buy" THEN raw + slippage
                         ELSE raw - slippage
           commission == calculate_commission(c, fill_price * order.quantity)
       IN IF commission.ok
          THEN [ok |-> TRUE, fill_price |-> fill_price,
                fill_quantity |-> order.quantity,
                commission |-> commission.value, slippage |-> slippage]
          ELSE FailedFill

Order(side, quantity) ==
  [side |-> side, quantity |-> quantity, order_type |-> "market",
   limit_price |-> NoPrice]

\* --------------------------------------------------------- RiskManager
RECURSIVE SumSeq(_)
SumSeq(s) == IF s = <<>> THEN 0 ELSE s[1] + SumSeq(Tail(s))

SelectWins(h) == SelectSeq(h, LAMBDA x : x > 0)
SelectLosses(h) == SelectSeq(h, LAMBDA x : x <= 0)
\* h[-n:] (h[-0:] is the whole list)
LastN(h, n) ==
  IF n = 0 \/ Len(h) <= n THEN h ELSE SubSeq(h, Len(h) - n + 1, Len(h))

calculate_fixed_size(c) == c.fixed_quantity

calculate_risk_pct_size_either_side(c, account_balance, entry_price, stop_loss, direction) ==
  LET risk_per_unit == Abs(entry_price - stop_loss)
  IN IF risk_per_unit = 0
     THEN 0
     ELSE (account_balance * c.risk_num) \div (PctDen * risk_per_unit)

\* position_size = risk_amount / risk_per_unit, in whole units.
calculate_risk_pct_size(c, account_balance, entry_price, stop_loss, direction) ==
  LET risk_per_unit == IF direction = "long" THEN entry_price - stop_loss
                       ELSE stop_loss - entry_price
  IN IF risk_per_unit <= 0
     THEN 0
     ELSE (account_balance * c.risk_num) \div (PctDen * risk_per_unit)

calculate_kelly_size_short_history(c, trade_history, account_balance, entry_price, stop_loss, direction) ==
  IF Len(trade_history) < c.lookback_trades - 1
  THEN calculate_risk_pct_size(c, account_balance, entry_price, stop_loss, direction)
  ELSE LET recent == LastN(trade_history, c.lookback_trades)
           wins == SelectWins(recent)
           losses == SelectLosses(recent)
           N == Len(recent)
           W == Len(wins)
           SW == SumSeq(wins)
           SL == Abs(SumSeq(losses))
       IN IF W = 0 \/ Len(losses) = 0 \/ SL = 0
          THEN calculate_risk_pct_size(c, account_balance, entry_price, stop_loss, direction)
          ELSE LET kelly_num == Max(0, Min(W * (SW - SL), N * SW))
                   kelly_den == N * SW
               IN (account_balance * kelly_num * c.kelly_fraction_num)
                    \div (kelly_den * PctDen * entry_price)

\* trade_history is the sequence of recorded pnl values.
\* kelly_percent = win_rate - (1 - win_rate) / (avg_win / avg_loss)
\*               = W * (SW - SL) / (N * SW), clamped to [0, 1].
calculate_kelly_size(c, trade_history, account_balance, entry_price, stop_loss, direction) ==
  IF Len(trade_history) < c.lookback_trades
  THEN calculate_risk_pct_size(c, account_balance, entry_price, stop_loss, direction)
  ELSE LET recent == LastN(trade_history, c.lookback_trades)
           wins == SelectWins(recent)
           losses == SelectLosses(recent)
           N == Len(recent)
           W == Len(wins)
           SW == SumSeq(wins)
           SL == Abs(SumSeq(losses))
       IN IF W = 0 \/ Len(losses) = 0 \/ SL = 0
          THEN calculate_risk_pct_size(c, account_balance, entry_price, stop_loss, direction)
          ELSE LET kelly_num == Max(0, Min(W * (SW - SL), N * SW))
                   kelly_den == N * SW
               IN (account_balance * kelly_num * c.kelly_fraction_num)
                    \div (kelly_den * PctDen * entry_price)

calculate_volatility_adjusted_size(c, account_balance) == c.base_size

calculate_position_size(c, trade_history, account_balance, entry_price, stop_loss, direction) ==
  CASE c.sizing_method = "fixed" -> calculate_fixed_size(c)
    [] c.sizing_method = "risk_pct" ->
         calculate_risk_pct_size(c, account_balance, entry_price, stop_loss, direction)
    [] c.sizing_method = "kelly" ->
         calculate_kelly_size(c, trade_history, account_balance, entry_price, stop_loss, direction)
    [] c.sizing_method = "volatility_adjusted" ->
         calculate_volatility_adjusted_size(c, account_balance)
    [] OTHER -> calculate_fixed_size(c)

\* TRUE = trading allowed.
check_portfolio_risk_no_count(c, current_equity, initial_capital, daily_pnl, daily_trades) ==
  LET daily_loss == IF daily_pnl < 0 THEN Abs(daily_pnl) ELSE 0
  IN ~ ( (initial_capital - current_equity) * PctDen >= c.max_drawdown_num * initial_capital
         \/ daily_loss * PctDen >= c.daily_loss_num * initial_capital )

check_portfolio_risk_strict(c, current_equity, initial_capital, daily_pnl, daily_trades) ==
  LET daily_loss == IF daily_pnl < 0 THEN Abs(daily_pnl) ELSE 0
  IN ~ ( (initial_capital - current_equity) * PctDen > c.max_drawdown_num * initial_capital
         \/ daily_loss * PctDen > c.daily_loss_num * initial_capital
         \/ daily_trades > c.max_daily_trades )

check_portfolio_risk(c, current_equity, initial_capital, daily_pnl, daily_trades) ==
  LET daily_loss == IF daily_pnl < 0 THEN Abs(daily_pnl) ELSE 0
  IN ~ ( (initial_capital - current_equity) * PctDen >= c.max_drawdown_num * initial_capital
         \/ daily_loss * PctDen >= c.daily_loss_num * initial_capital
         \/ daily_trades >= c.max_daily_trades )

record_trade(trade_history, pnl) ==
  LastN(Append(trade_history, pnl), MaxHistory)

\* ----------------------------------------------------- PositionManager
\* positions is the list PositionManager.positions.
add_position_off_by_one(c, positions, position) ==
  IF Len(positions) > c.max_open_positions
  THEN [ok |-> FALSE, positions |-> positions]
  ELSE [ok |-> TRUE, positions |-> Append(positions, position)]

add_position(c, positions, position) ==
  IF Len(positions) >= c.max_open_positions
  THEN [ok |-> FALSE, positions |-> positions]
  ELSE [ok |-> TRUE, positions |-> Append(positions, position)]

IndexOf(positions, position) ==
  IF \E i \in 1..Len(positions) : positions[i] = position
  THEN CHOOSE i \in 1..Len(positions) :
         positions[i] = position /\ \A j \in 1..(i - 1) : positions[j] # position
  ELSE 0

remove_position_keeps(positions, position) ==
  [ok |-> FALSE, positions |-> positions]

remove_position(positions, position) ==
  LET i == IndexOf(positions, position)
  IN IF i = 0
     THEN [ok |-> FALSE, positions |-> positions]
     ELSE [ok |-> TRUE,
           positions |-> SubSeq(positions, 1, i - 1) \o SubSeq(positions, i + 1, Len(positions))]

has_position(positions) == positions # <<>>

\* get_position() is positions[1] when has_position.
get_position(positions) == IF positions = <<>> THEN <<>> ELSE <<positions[1]>>

\* The Position object is shared with Portfolio.position; the caller applies
\* the same assignment there.
update_position_stop_loss(positions, position, new_stop_loss) ==
  LET i == IndexOf(positions, position)
  IN IF i = 0 THEN positions
     ELSE [positions EXCEPT ![i].stop_loss = new_stop_loss]

\* ------------------------------------------------------------ Portfolio
\* position holds zero or one Position (None = <<>>).
NewPortfolio ==
  [ cash |-> InitialCapital, equity |-> InitialCapital, position |-> <<>>,
    trades |-> <<>>, daily_stats |-> <<>>, current_date |-> NoTime,
    daily_pnl |-> 0, daily_trades |-> 0, equity_curve |-> <<>> ]

open_position(p, position, fill_price, commission, slippage) ==
  [p EXCEPT !.position = <<position>>,
            !.cash = @ - (fill_price * position.quantity + commission)]

TradePnl(pos, exit_price, commission, slippage) ==
  (IF pos.direction = "long"
   THEN (exit_price - pos.entry_price) * pos.quantity
   ELSE (pos.entry_price - exit_price) * pos.quantity)
  - commission - slippage * pos.quantity

MakeTrade(pos, exit_price, exit_time, commission, slippage) ==
  LET pnl == TradePnl(pos, exit_price, commission, slippage)
      entry_cost == pos.entry_price * pos.quantity
  IN [ entry_time |-> pos.entry_time, exit_time |-> exit_time,
       direction |-> pos.direction, entry_price |-> pos.entry_price,
       exit_price |-> exit_price, quantity |-> pos.quantity, pnl |-> pnl,
       commission |-> commission, slippage |-> slippage,
       return_pct |-> IF entry_cost > 0 THEN <<pnl, entry_cost>> ELSE <<0, 1>>,
       duration_bars |-> exit_time - pos.entry_time ]

close_position_exit_is_entry(p, exit_price, commission, slippage, timestamp) ==
  LET pos == p.position[1]
      trade == MakeTrade(pos, exit_price, pos.entry_time, commission, slippage)
  IN [p EXCEPT
        !.cash = IF pos.direction = "long"
                 THEN @ + exit_price * pos.quantity - commission
                 ELSE @ + pos.entry_price * pos.quantity + trade.pnl,
        !.trades = Append(@, trade),
        !.daily_pnl = @ + trade.pnl,
        !.daily_trades = @ + 1,
        !.position = <<>>]

\* Called only with p.position # <<>> (otherwise the code raises ValueError).
close_position(p, exit_price, commission, slippage, timestamp) ==
  LET pos == p.position[1]
      trade == MakeTrade(pos, exit_price, timestamp, commission, slippage)
  IN [p EXCEPT
        !.cash = IF pos.direction = "long"
                 THEN @ + exit_price * pos.quantity - commission
                 ELSE @ + pos.entry_price * pos.quantity + trade.pnl,
        !.trades = Append(@, trade),
        !.daily_pnl = @ + trade.pnl,
        !.daily_trades = @ + 1,
        !.position = <<>>]

UnrealizedPnl(position, current_price) ==
  IF position # <<>> /\ current_price # 0
  THEN IF position[1].direction = "long"
       THEN (current_price - position[1].entry_price) * position[1].quantity
       ELSE (position[1].entry_price - current_price) * position[1].quantity
  ELSE 0

\* timestamp = NoTime is the call with timestamp=None (no sample recorded).
update_equity(p, current_price, timestamp) ==
  LET equity == p.cash + UnrealizedPnl(p.position, current_price)
      p1 == [p EXCEPT !.equity = equity]
  IN IF timestamp = NoTime
     THEN p1
     ELSE LET p2 == [p1 EXCEPT !.equity_curve =
                        Append(@, [ timestamp |-> timestamp, equity |-> equity,
                                    cash |-> p.cash,
                                    unrealized_pnl |->
                                      UnrealizedPnl(p.position, current_price) ])]
          IN IF p.current_date = NoTime \/ Date(timestamp) # Date(p.current_date)
             THEN [p2 EXCEPT
                     !.daily_stats =
                        IF p.current_date # NoTime
                        THEN Append(@, [ date |-> Date(p.current_date),
                                         pnl |-> p.daily_pnl,
                                         trades |-> p.daily_trades,
                                         equity |-> equity ])
                        ELSE @,
                     !.current_date = timestamp,
                     !.daily_pnl = 0,
                     !.daily_trades = 0]
             ELSE p2

\* ------------------------------------------------- EMABBTurtleStrategy
update_stop_loss_no_ratchet(c, current_price, atr_value, position) ==
  IF atr_value = 0
  THEN position.stop_loss
  ELSE IF position.direction = "long"
       THEN current_price - atr_value * AtrMultiplier
       ELSE current_price + atr_value * AtrMultiplier

update_stop_loss(c, current_price, atr_value, position) ==
  IF atr_value = 0
  THEN position.stop_loss
  ELSE IF position.direction = "long"
       THEN LET new_stop == current_price - atr_value * AtrMultiplier
            IN CASE c.update_on = "always" -> Max(new_stop, position.stop_loss)
                 [] c.update_on = "favorable_move" ->
                      IF current_price > position.entry_price
                      THEN Max(new_stop, position.stop_loss)
                      ELSE position.stop_loss
                 [] OTHER -> position.stop_loss
       ELSE LET new_stop == current_price + atr_value * AtrMultiplier
            IN CASE c.update_on = "always" -> Min(new_stop, position.stop_loss)
                 [] c.update_on = "favorable_move" ->
                      IF current_price < position.entry_price
                      THEN Min(new_stop, position.stop_loss)
                      ELSE position.stop_loss
                 [] OTHER -> position.stop_loss

\* ----------------------------------------------------- SignalGenerator
\* bars_held = idx - df.index.get_loc(position.entry_time)
check_exit_conditions(c, current_price, idx, position, regime) ==
  \/ (position.direction = "long" /\ current_price <= position.stop_loss)
  \/ (position.direction # "long" /\ current_price >= position.stop_loss)
  \/ (c.regime_exit /\ regime # position.regime_at_entry)
  \/ (c.time_exit /\ position.entry_idx # NoLoc
        /\ idx - position.entry_idx >= c.max_bars)

\* The evaluation raises TypeError: the time-exit test is reached (no earlier
\* condition returned) and get_loc gave a slice, so "idx - slice" fails.
check_exit_raises(c, current_price, idx, position, regime) ==
  /\ ~(position.direction = "long" /\ current_price <= position.stop_loss)
  /\ ~(position.direction # "long" /\ current_price >= position.stop_loss)
  /\ ~(c.regime_exit /\ regime # position.regime_at_entry)
  /\ c.time_exit
  /\ position.entry_idx = NoLoc

\* Signal types: long_entry, short_entry, long_exit, short_exit, no_action;
\* "raised" stands for an exception leaving the call.
generate_exit_signal(c, b, idx, position) ==
  IF check_exit_raises(c, b.price, idx, position, b.regime)
  THEN [ type |-> "raised", price |-> b.price, timestamp |-> b.ts,
         regime |-> b.regime ]
  ELSE IF check_exit_conditions(c, b.price, idx, position, b.regime)
  THEN [ type |-> IF position.direction = "long" THEN "long_exit" ELSE "short_exit",
         price |-> b.price, timestamp |-> b.ts, regime |-> b.regime ]
  ELSE [ type |-> "no_action", price |-> b.price, timestamp |-> b.ts,
         regime |-> b.regime ]

\* ------------------------------------------------------- BacktestEngine
\* The engine's mutable world while one bar is processed:
\*   pf, positions, daily_trades, current_date, trade_history  - program state
\*   failed       - an exception left _process_bar_internal (the run aborts)
\*   n_opened, n_removed, obs - history of what the handler did (observers)
NoObs ==
  [ new_day |-> FALSE, had_position |-> FALSE, trades_before |-> 0,
    stop_before |-> 0,
    stop_moved |-> FALSE,      \* the position closed had its stop moved on this bar
    gate_equity |-> InitialCapital, gate_pnl |-> 0, gate_trades |-> 0,
    allowed |-> TRUE, sampled |-> FALSE, entry_signal |-> FALSE,
    opened |-> FALSE, closed |-> FALSE, forced |-> FALSE,
    add_rejected |-> FALSE, size |-> 0,
    raised |-> FALSE,          \* a decision evaluation raised on this bar
    order_failed |-> FALSE,    \* execute_order raised on this bar
    only_sideways |-> TRUE,    \* every bar read so far was labelled sideways
    repeated_ts |-> FALSE,     \* some bar read so far repeats a timestamp
    terminal |-> <<>> ]        \* the account as the loop of run() left it

\* Position.entry_idx is df.index.get_loc(entry_time).
Position(direction, entry_price, quantity, entry_time, stop_loss, regime, idx) ==
  [ direction |-> direction, entry_price |-> entry_price, quantity |-> quantity,
    entry_time |-> entry_time, stop_loss |-> stop_loss,
    regime_at_entry |-> regime, entry_idx |-> idx ]

generate_entry_signal_optimized_any_regime(b) ==
  IF b.price <= b.bb_lower
  THEN << [ type |-> "long_entry", price |-> b.price, timestamp |-> b.ts,
            regime |-> b.regime,
            stop_loss |-> b.price - b.atr * EntryAtrMultiplier ] >>
  ELSE IF b.price >= b.bb_upper /\ b.regime = "bear"
  THEN << [ type |-> "short_entry", price |-> b.price, timestamp |-> b.ts,
            regime |-> b.regime,
            stop_loss |-> b.price + b.atr * EntryAtrMultiplier ] >>
  ELSE <<>>

\* Returns <<>> for None.  "x or y" on floats: 0.0 is falsy.
generate_entry_signal_optimized(b) ==
  IF b.price <= b.bb_lower /\ b.regime = "bull"
  THEN << [ type |-> "long_entry", price |-> b.price, timestamp |-> b.ts,
            regime |-> b.regime,
            stop_loss |-> b.price - b.atr * EntryAtrMultiplier ] >>
  ELSE IF b.price >= b.bb_upper /\ b.regime = "bear"
  THEN << [ type |-> "short_entry", price |-> b.price, timestamp |-> b.ts,
            regime |-> b.regime,
            stop_loss |-> b.price + b.atr * EntryAtrMultiplier ] >>
  ELSE <<>>

generate_exit_signal_optimized(b, position) ==
  IF b.regime # position.regime_at_entry
  THEN << [ type |-> IF position.direction = "long" THEN "long_exit" ELSE "short_exit",
            price |-> b.price, timestamp |-> b.ts, regime |-> b.regime ] >>
  ELSE <<>>

open_position_optimized_ignoring_add(c, w, b, signal) ==
  LET direction == IF signal.type = "long_entry" THEN "long" ELSE "short"
      stop == IF signal.stop_loss # 0 THEN signal.stop_loss ELSE b.price
      position_size == calculate_position_size(c, w.trade_history, w.pf.equity,
                                               b.price, stop, direction)
      order == Order(IF signal.type = "long_entry" THEN "buy" ELSE "sell",
                     position_size)
      fill == execute_order(c, order, b.price, b.volume)
      position == Position(direction, fill.fill_price, position_size, b.ts,
                           stop, signal.regime,
                           IF b.dup THEN NoLoc ELSE b.idx)
      added == add_position(c, w.positions, position)
  IN IF position_size <= 0
     THEN [w EXCEPT !.obs.size = position_size]
     ELSE IF ~fill.ok
     THEN [w EXCEPT !.failed = TRUE, !.obs.order_failed = TRUE,
                    !.obs.size = position_size]
     ELSE [w EXCEPT !.positions = added.positions,
                    !.pf = open_position(w.pf, position, fill.fill_price,
                                         fill.commission, fill.slippage),
                    !.n_opened = IF added.ok THEN @ + 1 ELSE @,
                    !.obs.add_rejected = ~added.ok,
                    !.obs.opened = added.ok, !.obs.size = position_size]

open_position_optimized(c, w, b, signal) ==
  LET direction == IF signal.type = "long_entry" THEN "long" ELSE "short"
      stop == IF signal.stop_loss # 0 THEN signal.stop_loss ELSE b.price
      position_size == calculate_position_size(c, w.trade_history, w.pf.equity,
                                               b.price, stop, direction)
      order == Order(IF signal.type = "long_entry" THEN "buy" ELSE "sell",
                     position_size)
      fill == execute_order(c, order, b.price, b.volume)
      position == Position(direction, fill.fill_price, position_size, b.ts,
                           stop, signal.regime,
                           IF b.dup THEN NoLoc ELSE b.idx)
      added == add_position(c, w.positions, position)
  IN IF position_size <= 0
     THEN [w EXCEPT !.obs.size = position_size]
     ELSE IF ~fill.ok
     THEN [w EXCEPT !.failed = TRUE, !.obs.order_failed = TRUE,
                    !.obs.size = position_size]
     ELSE IF ~added.ok
     THEN [w EXCEPT !.obs.add_rejected = TRUE, !.obs.size = position_size]
     ELSE [w EXCEPT !.positions = added.positions,
                    !.pf = open_position(w.pf, position, fill.fill_price,
                                         fill.commission, fill.slippage),
                    !.n_opened = @ + 1,
                    !.obs.opened = TRUE, !.obs.size = position_size]

close_position_optimized_no_trade(c, w, b, position) ==
  LET removed == remove_position(w.positions, position)
  IN [w EXCEPT !.pf.position = <<>>,
               !.positions = removed.positions,
               !.n_removed = IF removed.ok THEN @ + 1 ELSE @,
               !.daily_trades = @ + 1,
               !.obs.closed = TRUE]

close_position_optimized(c, w, b, position) ==
  LET order == Order(IF position.direction = "long" THEN "sell" ELSE "buy",
                     position.quantity)
      fill == execute_order(c, order, b.price, b.volume)
      removed == remove_position(w.positions, position)
  IN IF ~fill.ok
     THEN [w EXCEPT !.failed = TRUE, !.obs.order_failed = TRUE]
     ELSE IF w.pf.position = <<>>
     THEN [w EXCEPT !.failed = TRUE]
     ELSE [w EXCEPT !.pf = close_position(w.pf, fill.fill_price, fill.commission,
                                          fill.slippage, b.ts),
                    !.positions = removed.positions,
                    !.n_removed = IF removed.ok THEN @ + 1 ELSE @,
                    !.daily_trades = @ + 1,
                    !.obs.closed = TRUE]

\* BacktestEngine._close_position: the breaker's close path.
engine_close_position(c, w, signal, volume) ==
  IF get_position(w.positions) = <<>>
  THEN w
  ELSE LET current_position == get_position(w.positions)[1]
           order == Order(IF current_position.direction = "long" THEN "sell"
                          ELSE "buy", current_position.quantity)
           fill == execute_order(c, order, signal.price, volume)
           pf1 == close_position(w.pf, fill.fill_price, fill.commission,
                                 fill.slippage, signal.timestamp)
           removed == remove_position(w.positions, current_position)
       IN IF ~fill.ok
          THEN [w EXCEPT !.failed = TRUE, !.obs.order_failed = TRUE]
          ELSE IF w.pf.position = <<>>
          THEN [w EXCEPT !.failed = TRUE]
          ELSE [w EXCEPT !.pf = pf1,
                         !.trade_history = record_trade(@, Last(pf1.trades).pnl),
                         !.positions = removed.positions,
                         !.n_removed = IF removed.ok THEN @ + 1 ELSE @,
                         !.daily_trades = @ + 1,
                         !.obs.closed = TRUE, !.obs.forced = TRUE]

\* Lines 332-346: the breaker denied.
DenyBranch(c, w, b) ==
  IF has_position(w.positions)
  THEN LET position == get_position(w.positions)[1]
           exit_signal == generate_exit_signal(c, b, b.idx, position)
       IN IF exit_signal.type = "raised"
          THEN [w EXCEPT !.failed = TRUE, !.obs.raised = TRUE]
          ELSE IF exit_signal.type # "no_action"
          THEN engine_close_position(c, w, exit_signal, b.volume)
          ELSE w
  ELSE w

\* Lines 352-470 with the smart-trading overlays off (use_smart_trading
\* defaults to False): trailing update, hard stop, exit signal.
HoldBranch(c, w, b) ==
  LET current_position == get_position(w.positions)[1]
      new_stop_loss == update_stop_loss(c, b.price, b.atr, current_position)
      w1 == [w EXCEPT
               !.positions = update_position_stop_loss(@, current_position, new_stop_loss),
               !.pf.position = IF @ # <<>> /\ @[1] = current_position
                               THEN <<[@[1] EXCEPT !.stop_loss = new_stop_loss]>>
                               ELSE @]
      position == [current_position EXCEPT !.stop_loss = new_stop_loss]
      should_exit == IF position.direction = "long"
                     THEN b.price <= position.stop_loss
                     ELSE b.price >= position.stop_loss
      exit_signal == generate_exit_signal_optimized(b, position)
      w2 == [w1 EXCEPT !.obs.stop_moved =
                         position.stop_loss # current_position.stop_loss]
  IN IF should_exit
     THEN close_position_optimized(c, w2, b, position)
     ELSE IF exit_signal # <<>>
     THEN close_position_optimized(c, w2, b, position)
     ELSE w1

\* Lines 472-481.
EntryBranch(c, w, b) ==
  LET entry_signal == generate_entry_signal_optimized(b)
  IN IF entry_signal # <<>>
     THEN open_position_optimized(c, [w EXCEPT !.obs.entry_signal = TRUE], b,
                                  entry_signal[1])
     ELSE w

\* The index of the run's data as far as it has been read: when bar b repeats
\* the entry timestamp of the open position, get_loc(entry_time) no longer
\* names one row.  (The Position object is shared with Portfolio.position.)
read_bar(w, b) ==
  IF b.dup /\ w.positions # <<>> /\ w.positions[1].entry_time = b.ts
  THEN [w EXCEPT !.positions[1].entry_idx = NoLoc,
                 !.pf.position = IF @ # <<>> /\ @[1] = w.positions[1]
                                 THEN <<[@[1] EXCEPT !.entry_idx = NoLoc]>>
                                 ELSE @]
  ELSE w

\* Lines 313-338: date roll-over, equity update, breaker query.
\* b.idx is the global index, last_idx = len(df) - 1.
bar_gate_always_records(c, w, b, last_idx, prev_ts) ==
  LET date_change == w.current_date # NoTime /\ Date(b.ts) # Date(w.current_date)
      daily == IF date_change THEN 0 ELSE w.daily_trades
      pf1 == update_equity(w.pf, b.price, b.ts)
  IN [w EXCEPT
        !.daily_trades = daily,
        !.current_date = IF w.current_date = NoTime \/ date_change THEN b.ts ELSE @,
        !.pf = pf1,
        !.obs = [NoObs EXCEPT
                   !.new_day = prev_ts # NoTime /\ Date(b.ts) # Date(prev_ts),
                   !.had_position = has_position(w.positions),
                   !.stop_before = IF has_position(w.positions)
                                   THEN w.positions[1].stop_loss ELSE 0,
                   !.trades_before = Len(w.pf.trades),
                   !.gate_equity = pf1.equity,
                   !.gate_pnl = pf1.daily_pnl,
                   !.gate_trades = daily,
                   !.allowed = check_portfolio_risk(c, pf1.equity, InitialCapital,
                                                    pf1.daily_pnl, daily),
                   !.sampled = TRUE,
                   !.only_sideways = w.obs.only_sideways /\ b.regime = "sideways",
                   !.repeated_ts = w.obs.repeated_ts \/ b.dup]]

bar_gate(c, w, b, last_idx, prev_ts) ==
  LET date_change == w.current_date # NoTime /\ Date(b.ts) # Date(w.current_date)
      daily == IF date_change THEN 0 ELSE w.daily_trades
      record_equity == has_position(w.positions)
                         \/ b.idx % EquityStride = 0
                         \/ b.idx = last_idx
      pf1 == update_equity(w.pf, b.price, IF record_equity THEN b.ts ELSE NoTime)
  IN [w EXCEPT
        !.daily_trades = daily,
        !.current_date = IF w.current_date = NoTime \/ date_change THEN b.ts ELSE @,
        !.pf = pf1,
        !.obs = [NoObs EXCEPT
                   !.new_day = prev_ts # NoTime /\ Date(b.ts) # Date(prev_ts),
                   !.had_position = has_position(w.positions),
                   !.stop_before = IF has_position(w.positions)
                                   THEN w.positions[1].stop_loss ELSE 0,
                   !.trades_before = Len(w.pf.trades),
                   !.gate_equity = pf1.equity,
                   !.gate_pnl = pf1.daily_pnl,
                   !.gate_trades = daily,
                   !.allowed = check_portfolio_risk(c, pf1.equity, InitialCapital,
                                                    pf1.daily_pnl, daily),
                   !.sampled = record_equity,
                   !.only_sideways = w.obs.only_sideways /\ b.regime = "sideways",
                   !.repeated_ts = w.obs.repeated_ts \/ b.dup]]

bar_branch_entry_when_denied(c, w, b) ==
  IF has_position(w.positions)
  THEN IF ~w.obs.allowed THEN DenyBranch(c, w, b) ELSE HoldBranch(c, w, b)
  ELSE EntryBranch(c, w, b)

bar_branch_reenters(c, w, b) ==
  IF ~w.obs.allowed
  THEN DenyBranch(c, w, b)
  ELSE IF has_position(w.positions)
  THEN LET h == HoldBranch(c, w, b)
       IN IF h.positions = <<>> /\ ~h.failed THEN EntryBranch(c, h, b) ELSE h
  ELSE EntryBranch(c, w, b)

\* Lines 339-481: what the handler does once the breaker has answered.
bar_branch(c, w, b) ==
  IF ~w.obs.allowed
  THEN DenyBranch(c, w, b)
  ELSE IF has_position(w.positions)
  THEN HoldBranch(c, w, b)
  ELSE EntryBranch(c, w, b)

\* ------------------------------------------------------------ the run
VARIABLES
  cfg,            \* the configuration of this run
  pc,             \* "running", "done" (run returned), "failed" (run raised)
  bars_done,      \* number of bars processed so far (local_idx of the next)
  bar,            \* <<b>>: the bar processed last, <<>> before the first
  pf,             \* Portfolio
  positions,      \* PositionManager.positions
  daily_trades,   \* BacktestEngine.daily_trades
  current_date,   \* BacktestEngine.current_date
  trade_history,  \* RiskManager.trade_history (pnl of each record)
  n_opened,       \* positions ever added to PositionManager
  n_removed,      \* positions ever removed from PositionManager
  obs,            \* what the handler saw and did on the last bar
  unit            \* a component exercised on its own: its state and last call

vars == << cfg, pc, bars_done, bar, pf, positions, daily_trades, current_date,
           trade_history, n_opened, n_removed, obs, unit >>

LastIdx == WarmupBars + MaxBars - 1

InitWith(configs) ==
  /\ cfg \in configs
  /\ pc = "running"
  /\ bars_done = 0
  /\ bar = <<>>
  /\ pf = NewPortfolio
  /\ positions = <<>>
  /\ daily_trades = 0
  /\ current_date = NoTime
  /\ trade_history = <<>>
  /\ n_opened = 0
  /\ n_removed = 0
  /\ obs = NoObs
  /\ unit = <<>>

Init == InitWith(Configs)

World ==
  [ pf |-> pf, positions |-> positions, daily_trades |-> daily_trades,
    current_date |-> current_date, trade_history |-> trade_history,
    n_opened |-> n_opened, n_removed |-> n_removed, obs |-> obs,
    failed |-> FALSE ]

\* The bar's volume reaches only SlippageModel.calculate_slippage, which reads
\* it under the volume_based model alone; under any other model one value
\* stands for every volume.
BarVolumes(c) == IF c.slippage_model = "volume_based" THEN Volumes ELSE {0}

\* One iteration of the loop of run(): the next bar of the data is read and
\* handed to _process_bar_internal (bar_gate, then bar_branch).  gaps is the
\* set of distances between consecutive timestamps of the data.
LoopStep(gaps) ==
  /\ pc = "running"
  /\ bars_done < MaxBars
  /\ \E price \in Prices, atr \in Atrs, band \in Bands,
        volume \in BarVolumes(cfg), regime \in Regimes, gap \in gaps :
       LET prev_ts == IF bar = <<>> THEN NoTime ELSE bar[1].ts
           b == [ idx |-> WarmupBars + bars_done,
                  ts |-> IF bar = <<>> THEN 0 ELSE prev_ts + gap,
                  dup |-> bar # <<>> /\ gap = 0,
                  price |-> price, atr |-> atr,
                  bb_lower |-> band[1], bb_upper |-> band[2],
                  volume |-> volume, regime |-> regime ]
       IN \E g \in {bar_gate(cfg, read_bar(World, b), b, LastIdx, prev_ts)} :
          \E w \in {bar_branch(cfg, g, b)} :
          /\ bar' = <<[idx |-> b.idx, ts |-> b.ts, price |-> b.price]>>
          /\ bars_done' = bars_done + 1
          /\ pc' = IF w.failed THEN "failed" ELSE "running"
          /\ pf' = w.pf
          /\ positions' = w.positions
          /\ daily_trades' = w.daily_trades
          /\ current_date' = w.current_date
          /\ trade_history' = w.trade_history
          /\ n_opened' = w.n_opened
          /\ n_removed' = w.n_removed
          /\ obs' = w.obs
  /\ UNCHANGED << cfg, unit >>

\* The data provider's contract holds: strictly ascending timestamps.
ProcessBar == LoopStep(Gaps)

\* What the terminal step finds: the account after the last bar.
AfterLoop == [ cash |-> pf.cash, trades |-> pf.trades, positions |-> positions,
               position |-> pf.position ]

FinishClosingPosition ==
  /\ pc = "running"
  /\ bars_done = MaxBars
  /\ \E w \in {engine_close_position(cfg, World,
                    [price |-> bar[1].price, timestamp |-> bar[1].ts + 1], 0)} :
       /\ pf' = update_equity(w.pf, bar[1].price, bar[1].ts)
       /\ positions' = w.positions
       /\ trade_history' = w.trade_history
       /\ n_removed' = w.n_removed
  /\ pc' = "done"
  /\ obs' = [obs EXCEPT !.terminal = <<AfterLoop>>]
  /\ UNCHANGED << cfg, bars_done, bar, daily_trades, current_date,
                  n_opened, unit >>

\* run() lines 254-260: the final update_equity after the loop.
Finish ==
  /\ pc = "running"
  /\ bars_done = MaxBars
  /\ pf' = update_equity(pf, bar[1].price, bar[1].ts)
  /\ pc' = "done"
  /\ obs' = [obs EXCEPT !.terminal = <<AfterLoop>>]
  /\ UNCHANGED << cfg, bars_done, bar, positions, daily_trades, current_date,
                  trade_history, n_opened, n_removed, unit >>

Next == ProcessBar \/ Finish

Spec == Init /\ [][Next]_vars

\* The same run on data as run() accepts it: nothing in run() inspects the
\* index, so a repeated timestamp reaches the loop.
ProcessAnyBar == LoopStep(AnyGaps)

NextAnyData == ProcessAnyBar \/ Finish

SpecAnyData == Init /\ [][NextAnyData]_vars

\* The same run with a fixed quantity whose notional exceeds the initial
\* capital: position_sizing.fixed.quantity is returned as configured.
LargeOrderConfigs == { [BaseConfig EXCEPT !.fixed_quantity = 20] }

InitLargeOrder == InitWith(LargeOrderConfigs)

SpecLargeOrder == InitLargeOrder /\ [][Next]_vars

\* ------------------------------------------------- OrderExecutor alone
\* Money in millionths: 100000000 is the price 100.  Rates are n/10000.
OrderPrices == {100000000, 200000000}
OrderTypes == {"market", "limit", "stop"}
Orders ==
  [ side : {"buy", "sell"}, quantity : {1, 2}, order_type : OrderTypes,
    limit_price : {NoPrice, 100000000} ]

TakerConfig ==
  [BaseConfig EXCEPT !.rate_den = 10000, !.fixed_pct_num = 1, !.taker_num = 4,
                     !.base_slippage_num = 1, !.volume_impact_num = 1]

OrderConfigs ==
  { TakerConfig,
    [TakerConfig EXCEPT !.commission_type = "fixed"],
    [TakerConfig EXCEPT !.commission_type = "tiered"],
    [TakerConfig EXCEPT !.slippage_model = "none"],
    [TakerConfig EXCEPT !.slippage_model = "volume_based"],
    [TakerConfig EXCEPT !.slippage_model = "historical", !.fixed_pct_num = 2] }

InitOrder == InitWith(OrderConfigs)

\* One call of OrderExecutor.execute_order(order, current_price, volume).
ExecuteOrder ==
  /\ \E order \in Orders, current_price \in OrderPrices, volume \in Volumes :
       unit' = << [ op |-> "execute_order", order |-> order,
                    current_price |-> current_price, volume |-> volume,
                    fill |-> execute_order(cfg, order, current_price, volume) ] >>
  /\ UNCHANGED << cfg, pc, bars_done, bar, pf, positions, daily_trades,
                  current_date, trade_history, n_opened, n_removed, obs >>

NextOrder == ExecuteOrder

SpecOrder == InitOrder /\ [][NextOrder]_vars

\* --------------------------------------------------- RiskManager alone
MaxTrades == 3
Pnls == {0 - 30, 0, 10, 60}
Balances == {0, 1000, 100000}
EntryPrices == {100, 200}
StopPrices == {50, 99, 100, 150}

KellyConfig == [BaseConfig EXCEPT !.sizing_method = "kelly"]

SizingConfigs ==
  { [KellyConfig EXCEPT !.lookback_trades = n] : n \in 1..MaxTrades }

InitSizing == InitWith(SizingConfigs)

\* RiskManager.record_trade with the pnl of a closed trade.
RecordTrade ==
  /\ Len(trade_history) < MaxTrades
  /\ \E pnl \in Pnls : trade_history' = record_trade(trade_history, pnl)
  /\ unit' = <<>>
  /\ UNCHANGED << cfg, pc, bars_done, bar, pf, positions, daily_trades,
                  current_date, n_opened, n_removed, obs >>

\* RiskManager.calculate_position_size under the kelly method, next to
\* _calculate_risk_pct_size on the same inputs.
SizePosition ==
  /\ \E account_balance \in Balances, entry_price \in EntryPrices,
        stop_loss \in StopPrices, direction \in {"long", "short"} :
       unit' = << [ op |-> "calculate_position_size",
                    account_balance |-> account_balance,
                    entry_price |-> entry_price, stop_loss |-> stop_loss,
                    direction |-> direction,
                    size |-> calculate_position_size(cfg, trade_history,
                               account_balance, entry_price, stop_loss, direction),
                    risk_pct_size |-> calculate_risk_pct_size(cfg,
                               account_balance, entry_price, stop_loss, direction) ] >>
  /\ UNCHANGED << cfg, pc, bars_done, bar, pf, positions, daily_trades,
                  current_date, trade_history, n_opened, n_removed, obs >>

NextSizing == RecordTrade \/ SizePosition

SpecSizing == InitSizing /\ [][NextSizing]_vars

\* ------------------------------------------------- BaseIndicator alone
\* One indicator object (VolumeMA, type sma) called on data frames; a frame
\* is its volume column.  NaN is the value of a window that is not full.
MaxRows == 3
IndicatorPeriod == 2
NaN == 0 - 1
VolumeLevels == {0, 2, 4}
Frames == UNION { [1..n -> VolumeLevels] : n \in 1..MaxRows }

\* VolumeMA.calculate: df["volume"].rolling(window=period).mean()
calculate(df) ==
  [ i \in 1..Len(df) |->
      IF i < IndicatorPeriod THEN NaN
      ELSE SumSeq(SubSeq(df, i - IndicatorPeriod + 1, i)) \div IndicatorPeriod ]

\* BaseIndicator.__call__: cache is <<>> for None, else <<series>>.
indicator_call(cache, df, use_cache) ==
  IF use_cache /\ cache # <<>> /\ Len(cache[1]) = Len(df)
  THEN [result |-> cache[1], cache |-> cache]
  ELSE [result |-> calculate(df), cache |-> <<calculate(df)>>]

IndicatorCache == IF unit = <<>> THEN <<>> ELSE unit[1].cache

\* strategy.calculate_indicators(df): the indicator is called on the frame
\* (use_cache defaults to True).
CallIndicator ==
  /\ \E df \in Frames, use_cache \in BOOLEAN :
       \E r \in {indicator_call(IndicatorCache, df, use_cache)} :
         unit' = << [ op |-> "indicator", df |-> df, use_cache |-> use_cache,
                      result |-> r.result, cache |-> r.cache ] >>
  /\ UNCHANGED << cfg, pc, bars_done, bar, pf, positions, daily_trades,
                  current_date, trade_history, n_opened, n_removed, obs >>

\* BaseIndicator.reset_cache
ResetCache ==
  /\ unit # <<>>
  /\ unit[1].cache # <<>>
  /\ unit' = << [unit[1] EXCEPT !.op = "reset_cache", !.cache = <<>>] >>
  /\ UNCHANGED << cfg, pc, bars_done, bar, pf, positions, daily_trades,
                  current_date, trade_history, n_opened, n_removed, obs >>

InitIndicator == InitWith({BaseConfig})

NextIndicator == CallIndicator \/ ResetCache

SpecIndicator == InitIndicator /\ [][NextIndicator]_vars

\* ------------------------------------------------ RegimeDetector alone
MaxSeriesLen == 7
MaxFilterBars == 3

\* len(window.unique()) == 1
Uniform(s) == s # <<>> /\ \A i \in 1..Len(s) : s[i] = s[1]

\* filtered.iloc[lo-1 : hi] = value, the slice clipped to the series.
AssignSlice(f, lo, hi, value) ==
  [ i \in 1..Len(f) |-> IF lo <= i /\ i <= hi THEN value ELSE f[i] ]

\* First loop (minimum holding period), from iteration i on; i is the
\* 1-based start of the window, the code's i + 1.
RECURSIVE min_bars_pass(_, _, _, _)
min_bars_pass(regime, filtered, i, min_bars) ==
  IF i > Len(regime) - min_bars + 1
  THEN filtered
  ELSE IF Uniform(SubSeq(regime, i, i + min_bars - 1)) \/ i = 1
  THEN min_bars_pass(regime, filtered, i + 1, min_bars)
  ELSE min_bars_pass(regime,
                     AssignSlice(filtered, i, i + min_bars - 2, filtered[i - 1]),
                     i + 1, min_bars)

RECURSIVE confirmation_pass_always_hold(_, _, _)
confirmation_pass_always_hold(filtered, i, confirmation_bars) ==
  IF i > Len(filtered)
  THEN filtered
  ELSE confirmation_pass_always_hold([filtered EXCEPT ![i] = filtered[i - 1]],
                                     i + 1, confirmation_bars)

\* Second loop (confirmation period), from iteration i on.
RECURSIVE confirmation_pass(_, _, _)
confirmation_pass(filtered, i, confirmation_bars) ==
  IF i > Len(filtered)
  THEN filtered
  ELSE IF Uniform(SubSeq(filtered, i - confirmation_bars, i - 1))
  THEN confirmation_pass(filtered, i + 1, confirmation_bars)
  ELSE confirmation_pass([filtered EXCEPT ![i] = filtered[i - 1]], i + 1,
                         confirmation_bars)

\* RegimeDetector._apply_transition_filter
apply_transition_filter(regime, min_bars, confirmation_bars) ==
  confirmation_pass(min_bars_pass(regime, regime, 1, min_bars),
                    confirmation_bars + 1, confirmation_bars)

InitRegime == InitWith({BaseConfig})

RawSeries == IF unit = <<>> THEN <<>> ELSE unit[1].regime

\* The raw classification of one more bar (the series the filter is given).
ClassifyBar ==
  /\ Len(RawSeries) < MaxSeriesLen
  /\ \E label \in Regimes :
       unit' = << [ op |-> "classify", regime |-> Append(RawSeries, label),
                    min_bars |-> 1, confirmation_bars |-> 1,
                    filtered |-> <<>> ] >>
  /\ UNCHANGED << cfg, pc, bars_done, bar, pf, positions, daily_trades,
                  current_date, trade_history, n_opened, n_removed, obs >>

\* _apply_transition_filter on the series, under some transition config.
ApplyFilter ==
  /\ unit # <<>>
  /\ unit[1].op = "classify"
  /\ \E min_bars \in 1..MaxFilterBars, confirmation_bars \in 1..MaxFilterBars :
       unit' = << [ op |-> "filter", regime |-> unit[1].regime,
                    min_bars |-> min_bars,
                    confirmation_bars |-> confirmation_bars,
                    filtered |-> apply_transition_filter(unit[1].regime, min_bars,
                                                         confirmation_bars) ] >>
  /\ UNCHANGED << cfg, pc, bars_done, bar, pf, positions, daily_trades,
                  current_date, trade_history, n_opened, n_removed, obs >>

NextRegime == ClassifyBar \/ ApplyFilter

SpecRegime == InitRegime /\ [][NextRegime]_vars

\* ------------------------------------- RegimeDetector.detect on a frame
\* A frame is the sequence of its rows <<EMA_20, EMA_40, EMA_80>>; the series
\* returned is indexed like the frame (one position per row).
MaxDetectRows == 4
MinSeparationNum == 1     \* min_separation_pct = 1/10 (percent)
MinSeparationDen == 10
EmaRows ==
  { <<1020, 1010, 1000>>, <<1000, 1010, 1020>>, <<1002, 1001, 1000>>,
    <<0, 10, 20>>, <<NaN, NaN, NaN>> }
Methods == {"ema_alignment", "hmm"}

\* np.where(x != 0, x, 1)
Safe(x) == IF x # 0 THEN x ELSE 1

\* (a - b) / safe * 100 >= min_separation_pct, for safe > 0
Separated(a, b, safe) ==
  (a - b) * 100 * MinSeparationDen >= MinSeparationNum * safe

ema_alignment_label_nan_kept(row) ==
  LET ema20 == row[1]
      ema40 == row[2]
      ema80 == row[3]
  IN IF ema20 = NaN \/ ema40 = NaN \/ ema80 = NaN
     THEN "nan"
     ELSE IF ema20 > ema40 /\ ema40 > ema80
     THEN "bull"
     ELSE IF ema20 < ema40 /\ ema40 < ema80
     THEN "bear"
     ELSE "sideways"

\* The label of one row: every comparison with NaN is False.
ema_alignment_label(row) ==
  LET ema20 == row[1]
      ema40 == row[2]
      ema80 == row[3]
      bull_condition ==
        /\ ema20 > ema40 /\ ema40 > ema80
        /\ Separated(ema20, ema40, Safe(ema40))
        /\ Separated(ema40, ema80, Safe(ema80))
      bear_condition ==
        /\ ema20 < ema40 /\ ema40 < ema80
        /\ Separated(ema40, ema20, Safe(ema20))
        /\ Separated(ema80, ema40, Safe(ema40))
  IN IF ema20 = NaN \/ ema40 = NaN \/ ema80 = NaN
     THEN "sideways"
     ELSE IF bull_condition THEN "bull"
     ELSE IF bear_condition THEN "bear"
     ELSE "sideways"

detect_ema_alignment(df, min_bars, confirmation_bars) ==
  apply_transition_filter([i \in 1..Len(df) |-> ema_alignment_label(df[i])],
                          min_bars, confirmation_bars)

\* A raised ValueError is the result [ok |-> FALSE].
detect(method, df, min_bars, confirmation_bars) ==
  IF method = "ema_alignment"
  THEN [ok |-> TRUE, regime |-> detect_ema_alignment(df, min_bars, confirmation_bars)]
  ELSE [ok |-> FALSE, regime |-> <<>>]

InitDetect == InitWith({BaseConfig})

DetectFrame == IF unit = <<>> THEN <<>> ELSE unit[1].df

\* One more row of indicator values in the frame.
AppendRow ==
  /\ Len(DetectFrame) < MaxDetectRows
  /\ \E row \in EmaRows :
       unit' = << [ op |-> "row", df |-> Append(DetectFrame, row),
                    method |-> "ema_alignment", min_bars |-> 1,
                    confirmation_bars |-> 1, ok |-> TRUE, regime |-> <<>> ] >>
  /\ UNCHANGED << cfg, pc, bars_done, bar, pf, positions, daily_trades,
                  current_date, trade_history, n_opened, n_removed, obs >>

\* strategy.detect_regime(df): RegimeDetector.detect under some config.
Detect ==
  /\ unit # <<>>
  /\ unit[1].op = "row"
  /\ \E method \in Methods, min_bars \in 1..MaxFilterBars,
        confirmation_bars \in 1..MaxFilterBars :
       \E r \in {detect(method, unit[1].df, min_bars, confirmation_bars)} :
         unit' = << [ op |-> "detect", df |-> unit[1].df, method |-> method,
                      min_bars |-> min_bars,
                      confirmation_bars |-> confirmation_bars,
                      ok |-> r.ok, regime |-> r.regime ] >>
  /\ UNCHANGED << cfg, pc, bars_done, bar, pf, positions, daily_trades,
                  current_date, trade_history, n_opened, n_removed, obs >>

NextDetect == AppendRow \/ Detect

SpecDetect == InitDetect /\ [][NextDetect]_vars

\* ------------------------------- RiskManager.check_portfolio_risk alone
Equities == {70000, 80000, 80001, 100000, 120000}
DailyPnls == {0 - 6000, 0 - 5000, 0 - 4999, 0, 5000}
DailyTradeCounts == {0, 1, 2}

BreakerConfigs ==
  { [BaseConfig EXCEPT !.daily_loss_num = n, !.max_daily_trades = m] :
      n \in {0, 5}, m \in {1, 2} }

InitBreaker == InitWith(BreakerConfigs)

\* One call of check_portfolio_risk(current_equity, initial_capital,
\* daily_pnl, daily_trades).
CheckPortfolioRisk ==
  /\ \E current_equity \in Equities, daily_pnl \in DailyPnls,
        trades \in DailyTradeCounts :
       unit' = << [ op |-> "check_portfolio_risk",
                    current_equity |-> current_equity,
                    initial_capital |-> InitialCapital,
                    daily_pnl |-> daily_pnl, daily_trades |-> trades,
                    allowed |-> check_portfolio_risk(cfg, current_equity,
                                  InitialCapital, daily_pnl, trades) ] >>
  /\ UNCHANGED << cfg, pc, bars_done, bar, pf, positions, daily_trades,
                  current_date, trade_history, n_opened, n_removed, obs >>

NextBreaker == CheckPortfolioRisk

SpecBreaker == InitBreaker /\ [][NextBreaker]_vars

\* ------------------- _open_position_optimized under risk_pct sizing
\* An entry signal reaches _open_position_optimized while no position is
\* open.  stop_loss 0 is a signal without a stop (signal.stop_loss is None).
\* Equity, price and stop are such that risk_amount / risk_per_unit is a
\* whole number, so the whole-unit size of the model is the size of the code.
SignalStops == {0, 10000, 15000, 20000}
AccountEquities == {100000, 200000}

RiskPctConfigs == { [BaseConfig EXCEPT !.sizing_method = "risk_pct"] }

InitRiskPct == InitWith(RiskPctConfigs)

OpenOnSignal ==
  /\ \E type \in {"long_entry", "short_entry"}, price \in Prices,
        stop_loss \in SignalStops, equity \in AccountEquities,
        regime \in Regimes, volume \in Volumes :
       LET signal == [type |-> type, stop_loss |-> stop_loss, regime |-> regime]
           b == [ idx |-> WarmupBars, ts |-> 0, dup |-> FALSE, price |-> price,
                  atr |-> 0, bb_lower |-> price, bb_upper |-> price,
                  volume |-> volume, regime |-> regime ]
           w == [World EXCEPT !.pf.cash = equity, !.pf.equity = equity]
       IN unit' = << [ op |-> "open_position", signal |-> signal,
                       price |-> price, volume |-> volume,
                       equity |-> equity,
                       w |-> open_position_optimized(cfg, w, b, signal) ] >>
  /\ UNCHANGED << cfg, pc, bars_done, bar, pf, positions, daily_trades,
                  current_date, trade_history, n_opened, n_removed, obs >>

NextRiskPct == OpenOnSignal

SpecRiskPct == InitRiskPct /\ [][NextRiskPct]_vars

\* ------------------------------------------ WalkForwardAnalyzer.analyze
\* Time in whole days.  A frame is the set of days its DatetimeIndex holds
\* (ascending, so df.index[0] is the least and df.index[-1] the greatest).
MaxDay == 5
PassModulus == 2
WindowDays == {1, 2}
DateFrames == { f \in SUBSET (0..MaxDay) : f # {} }

FirstDay(df) == CHOOSE d \in df : \A e \in df : d <= e
LastDay(df) == CHOOSE d \in df : \A e \in df : e <= d

\* df[(df.index >= from) & (df.index < to)]
Rows(df, from, to) == { d \in df : d >= from /\ d < to }

\* One evaluation of the while condition of analyze and, when it holds, one
\* pass of the loop body.  a is the call: its arguments, current_start, the
\* windows appended to results so far (a repeated window is the same
\* element), the number of passes of the loop body counted modulo
\* PassModulus, and pc = "returned" once the loop has been left.  Both
\* engine runs of a window return (the data of a window is finite).
analyze_iteration(a) ==
  LET start_date == FirstDay(a.df)
      end_date == LastDay(a.df)
      in_sample_start == IF a.anchored THEN start_date ELSE a.current_start
      in_sample_end == in_sample_start + a.in_sample_days
      out_sample_start == in_sample_end
      out_sample_reach == out_sample_start + a.out_of_sample_days
      out_sample_end == IF out_sample_reach > end_date THEN end_date
                        ELSE out_sample_reach
      in_sample_df == Rows(a.df, in_sample_start, in_sample_end)
      out_sample_df == Rows(a.df, out_sample_start, out_sample_end)
      window == [ in_sample_start |-> in_sample_start,
                  in_sample_end |-> in_sample_end,
                  out_sample_start |-> out_sample_start,
                  out_sample_end |-> out_sample_end ]
  IN IF ~(a.current_start < end_date) THEN [a EXCEPT !.pc = "returned"]
     ELSE IF in_sample_end > end_date THEN [a EXCEPT !.pc = "returned"]
     ELSE IF in_sample_df = {} \/ out_sample_df = {}
     THEN [a EXCEPT !.current_start = out_sample_end,
                    !.passes = (@ + 1) % PassModulus]
     ELSE [a EXCEPT !.results = @ \cup {window},
                    !.passes = (@ + 1) % PassModulus,
                    !.current_start = IF a.anchored THEN out_sample_end
                                      ELSE in_sample_end]

InitWalkForward == InitWith({BaseConfig})

\* analyze(strategy, df, backtest_config) is called on an analyzer whose
\* configuration gave in_sample_days, out_of_sample_days and anchored.
Analyze ==
  /\ unit = <<>>
  /\ \E df \in DateFrames, in_sample_days \in WindowDays,
        out_of_sample_days \in WindowDays, anchored \in BOOLEAN :
       unit' = << [ op |-> "analyze", df |-> df,
                    in_sample_days |-> in_sample_days,
                    out_of_sample_days |-> out_of_sample_days,
                    anchored |-> anchored,
                    current_start |-> FirstDay(df), results |-> {},
                    passes |-> 0, pc |-> "loop" ] >>
  /\ UNCHANGED << cfg, pc, bars_done, bar, pf, positions, daily_trades,
                  current_date, trade_history, n_opened, n_removed, obs >>

AnalyzeIteration ==
  /\ unit # <<>>
  /\ unit[1].pc = "loop"
  /\ unit' = << analyze_iteration(unit[1]) >>
  /\ UNCHANGED << cfg, pc, bars_done, bar, pf, positions, daily_trades,
                  current_date, trade_history, n_opened, n_removed, obs >>

NextWalkForward == Analyze \/ AnalyzeIteration

\* The call runs on one thread that is never suspended: a step that can be
\* taken is taken.
SpecWalkForward ==
  InitWalkForward /\ [][NextWalkForward]_vars /\ WF_vars(NextWalkForward)

\* ============================================================== claims
\* A bar has been fully processed and the run goes on.
AtBarBoundary == pc = "running" /\ bar # <<>>

\* The breaker's three deny conditions, as the risk configuration states them.
DrawdownBreach(equity) ==
  (InitialCapital - equity) * PctDen >= cfg.max_drawdown_num * InitialCapital
DailyLossBreach(pnl) ==
  pnl < 0 /\ (0 - pnl) * PctDen >= cfg.daily_loss_num * InitialCapital
TradeCountBreach(n) == n >= cfg.max_daily_trades
BreakerDenies ==
  \/ DrawdownBreach(obs.gate_equity)
  \/ DailyLossBreach(obs.gate_pnl)
  \/ TradeCountBreach(obs.gate_trades)

\* C1: at every bar boundary (after the bar has been fully processed, a
\* position opened or closed on it included) equity equals cash plus the
\* unrealized pnl of the open position at that bar's price, and equals cash
\* when no position is open.
C1_EquityIdentity ==
  AtBarBoundary =>
    pf.equity = pf.cash
                + (IF pf.position = <<>> THEN 0
                   ELSE IF pf.position[1].direction = "long"
                   THEN (bar[1].price - pf.position[1].entry_price) * pf.position[1].quantity
                   ELSE (pf.position[1].entry_price - bar[1].price) * pf.position[1].quantity)

\* C2: on a bar where the breaker denies and a position was open at the start
\* of the bar, the position is closed on that bar: none is open at the end of
\* the bar and exactly one Trade has been appended.
C2_BreakerForcesClose ==
  (AtBarBoundary /\ obs.had_position /\ ~obs.allowed) =>
    /\ positions = <<>>
    /\ pf.position = <<>>
    /\ Len(pf.trades) = obs.trades_before + 1

\* C3: every destroyed position becomes exactly one Trade: the ledger has one
\* Trade per position removed, and the positions ever opened are the Trades
\* plus the positions still open.
C3_OneTradePerPosition ==
  /\ Len(pf.trades) = n_removed
  /\ n_opened = Len(pf.trades) + Len(positions)

\* C3 witness: one position was closed into a Trade and another one is open.
C3_Witness == Len(pf.trades) = 1 /\ Len(positions) = 1 /\ n_opened = 2

\* C4: every Trade of the ledger has exit_time strictly after entry_time and
\* a non-negative duration.
C4_TradeTimes ==
  \A i \in 1..Len(pf.trades) :
    /\ pf.trades[i].exit_time > pf.trades[i].entry_time
    /\ pf.trades[i].duration_bars >= 0

\* C4 witness: a Trade closed on the bar right after its entry and a Trade
\* closed across a date change are both in the ledger states TLC visits; this
\* one is the former.
C4_Witness ==
  /\ Len(pf.trades) >= 1
  /\ Last(pf.trades).exit_time = Last(pf.trades).entry_time + 1

\* C5: the number of open positions never exceeds max_open_positions, and an
\* add_position at capacity fails and leaves the position list unchanged.
C5_Capacity ==
  /\ [](Len(positions) <= cfg.max_open_positions)
  /\ [][obs'.add_rejected => (positions' = positions /\ pf'.position = pf.position)]_vars

\* C5 witness: add_position was called at capacity and rejected.
C5_Witness == obs.add_rejected /\ Len(positions) = cfg.max_open_positions

\* C6: under the favorable_move policy the stop of a position that stays open
\* never regresses over a bar: a long stop does not fall, a short stop does
\* not rise.
C6_StopMonotone ==
  (cfg.update_on = "favorable_move" /\ obs.had_position /\ positions # <<>>) =>
    /\ positions[1].direction = "long" => positions[1].stop_loss >= obs.stop_before
    /\ positions[1].direction = "short" => positions[1].stop_loss <= obs.stop_before

\* C6 witness: a long position's stop was raised by the trailing update and
\* the position stayed open.
C6_Witness ==
  /\ cfg.update_on = "favorable_move"
  /\ obs.had_position /\ positions # <<>>
  /\ positions[1].direction = "long"
  /\ positions[1].stop_loss > obs.stop_before

\* C7: on the first processed bar of a new calendar date both daily counters
\* the breaker reads, the trade count and the realized pnl, have been reset to
\* zero, sampled bar or not.
C7_DailyReset ==
  (bar # <<>> /\ obs.new_day) => (obs.gate_trades = 0 /\ obs.gate_pnl = 0)

\* C8 (as claimed): when a drawdown breach forces a position closed, the
\* Trade's exit_price equals the bar's signal price (its close).
C8_ExitAtSignalPrice ==
  (AtBarBoundary /\ obs.forced /\ DrawdownBreach(obs.gate_equity)) =>
    Last(pf.trades).exit_price = bar[1].price

\* C8 (amended): the Trade's exit_price is the bar's close moved against the
\* trader by the order's slippage: close - slippage for a long (sell), close +
\* slippage for a short (buy); it is the close itself only under the "none"
\* slippage model.
C8_ExitAtSlippedPrice ==
  (AtBarBoundary /\ obs.forced /\ DrawdownBreach(obs.gate_equity)) =>
    LET t == Last(pf.trades)
    IN /\ t.exit_price = IF t.direction = "long" THEN bar[1].price - t.slippage
                         ELSE bar[1].price + t.slippage
       /\ cfg.slippage_model = "none" => t.exit_price = bar[1].price
       /\ cfg.slippage_model = "fixed_pct" =>
            t.slippage * cfg.rate_den = bar[1].price * cfg.fixed_pct_num

\* C8 witness: a drawdown breach closed a short position with slippage.
C8_Witness ==
  /\ AtBarBoundary /\ obs.forced /\ DrawdownBreach(obs.gate_equity)
  /\ Last(pf.trades).direction = "short"
  /\ Last(pf.trades).slippage > 0

\* C9: no position is opened on a bar on which the breaker's drawdown,
\* daily-loss or daily-trade-count condition holds.
C9_NoEntryWhileDenied == obs.opened => ~BreakerDenies

\* C9 witness: an entry signal fired on a bar where the breaker denied, and no
\* position was opened.  (The deny branch never evaluates the signal; a bar
\* with the breaker denying and no position open is the case.)
C9_Witness ==
  /\ AtBarBoundary /\ BreakerDenies /\ ~obs.had_position
  /\ ~obs.opened /\ positions = <<>>

\* C11 (as claimed): when the evaluation of a bar's decision raises, the run
\* goes on: the bar opens and closes nothing and the loop keeps running.
C11_DecisionFailureIsolated ==
  obs.raised => (pc = "running" /\ ~obs.opened /\ ~obs.closed)

\* C12: while every bar read so far is labelled sideways, no position has
\* been opened, the ledger is empty, and equity and every equity-curve sample
\* equal the initial capital.
C12_SidewaysFlat ==
  (bar # <<>> /\ obs.only_sideways) =>
    /\ n_opened = 0 /\ positions = <<>> /\ pf.position = <<>>
    /\ pf.trades = <<>>
    /\ pf.equity = InitialCapital
    /\ \A i \in 1..Len(pf.equity_curve) :
         pf.equity_curve[i].equity = InitialCapital

\* C12 witness: a whole run of sideways bars ended, with samples on the
\* equity curve, and one of its bars touched the lower band.
C12_Witness ==
  /\ pc = "done" /\ obs.only_sideways
  /\ Len(pf.equity_curve) >= 2
  /\ bar[1].price = 10000

\* The call C13 is about: market buy, quantity 1, price 100, fixed_pct
\* slippage 0.0001, taker commission 0.0004.
C13Call ==
  /\ unit # <<>> /\ unit[1].op = "execute_order"
  /\ unit[1].order.order_type = "market" /\ unit[1].order.side = "buy"
  /\ unit[1].order.quantity = 1 /\ unit[1].current_price = 100000000
  /\ cfg.slippage_model = "fixed_pct" /\ cfg.rate_den = 10000
  /\ cfg.fixed_pct_num = 1
  /\ cfg.commission_type = "percentage" /\ cfg.taker_num = 4

\* C13 (as claimed): the fill price is 100.01 and the commission is
\* 0.0400004, to the last digit stated (commission is held in millionths, so
\* ten times it is compared with 400004).
C13_CommissionAsStated ==
  C13Call =>
    /\ unit[1].fill.fill_price = 100010000
    /\ Abs(10 * unit[1].fill.commission - 400004) <= 1

\* C13 (amended): the fill price is 100.01 (price plus slippage 0.01) and the
\* commission is fill price * quantity * 0.0004 = 0.040004.
C13_FillAndCommission ==
  C13Call =>
    /\ unit[1].fill.ok
    /\ unit[1].fill.slippage = 10000
    /\ unit[1].fill.fill_price = 100010000
    /\ unit[1].fill.commission = 40004

\* C13 witness: the call was made and filled.
C13_Witness == C13Call /\ unit[1].fill.ok /\ unit[1].fill.commission > 0

\* C17 (as claimed): once the data is known to repeat a timestamp, the run
\* has failed and holds no Trade and no equity sample.
C17_BadDataRejected ==
  obs.repeated_ts =>
    (pc = "failed" /\ pf.trades = <<>> /\ pf.equity_curve = <<>>)

\* The three ways an order is rejected.
OrderRejected(c, order) ==
  \/ order.order_type \notin {"market", "limit"}
  \/ (order.order_type = "limit" /\ order.limit_price = NoPrice)
  \/ c.commission_type \notin {"percentage", "fixed"}

\* C18: execute_order produces no Fill for an order of unknown type, a limit
\* order without a limit price, or under an unknown commission type; and a
\* bar on which the order failed leaves cash, the ledger, the risk manager's
\* history and the open positions as they were.  (The configuration is fixed
\* for the run, so the first conjunct is stated of the run's first state.)
C18_FailedOrder ==
  /\ \A order \in Orders, price \in Prices, volume \in Volumes :
       OrderRejected(cfg, order) =>
         execute_order(cfg, order, price, volume) = FailedFill
  /\ [][obs'.order_failed =>
          /\ pc' = "failed"
          /\ pf'.cash = pf.cash /\ pf'.trades = pf.trades
          /\ Len(positions') = Len(positions)
          /\ (pf'.position = <<>>) = (pf.position = <<>>)
          /\ trade_history' = trade_history
          /\ n_opened' = n_opened /\ n_removed' = n_removed]_vars

\* C18 witness: an entry order failed on the unknown commission type.
C18_Witness ==
  /\ obs.order_failed /\ pc = "failed" /\ obs.entry_signal
  /\ cfg.commission_type = "tiered"

\* The last call sized a position with the history as it is now.
SizingCall == unit # <<>> /\ unit[1].op = "calculate_position_size"

\* The trades the kelly method looks at: the last lookback_trades ones.
RecentPnls ==
  IF Len(trade_history) <= cfg.lookback_trades THEN trade_history
  ELSE SubSeq(trade_history, Len(trade_history) - cfg.lookback_trades + 1,
              Len(trade_history))

\* History too short, or no winning trade, or no losing trade, or an average
\* loss of zero (every non-winning trade has pnl 0).
KellyFallsBack ==
  \/ Len(trade_history) < cfg.lookback_trades
  \/ \A i \in 1..Len(RecentPnls) : RecentPnls[i] <= 0
  \/ \A i \in 1..Len(RecentPnls) : RecentPnls[i] > 0
  \/ \A i \in 1..Len(RecentPnls) : RecentPnls[i] >= 0

\* C14: with fewer than lookback_trades trades recorded, or a recent history
\* without a winning trade, without a losing trade or with a zero average
\* loss, kelly sizing returns the risk-percentage size of the same inputs.
C14_KellyFallback ==
  (SizingCall /\ KellyFallsBack) => unit[1].size = unit[1].risk_pct_size

\* C14 witness: a full history without a losing trade was sized, and the
\* size is not zero.
C14_Witness ==
  /\ SizingCall /\ Len(trade_history) >= cfg.lookback_trades
  /\ \A i \in 1..Len(RecentPnls) : RecentPnls[i] > 0
  /\ unit[1].size > 0

\* C15 (as claimed): the kelly method's size lies in
\* [0, equity * fraction / entry_price] for every history and input.
C15_KellyClamped ==
  SizingCall =>
    /\ unit[1].size >= 0
    /\ unit[1].size * PctDen * unit[1].entry_price
         <= unit[1].account_balance * cfg.kelly_fraction_num

\* C16 (as claimed): whatever was called before, calling the indicator on a
\* frame returns the series computed from that frame.
C16_IndicatorPure ==
  (unit # <<>> /\ unit[1].op = "indicator") =>
    unit[1].result = calculate(unit[1].df)

\* The transition filter has just been applied to the series.
FilterCall == unit # <<>> /\ unit[1].op = "filter"

\* The raw series is one label everywhere except bar j (at least three bars,
\* so that the odd bar is the noise).
LoneOutlier(regime, j) ==
  /\ Len(regime) >= 3
  /\ j \in 1..Len(regime)
  /\ \A i, k \in (1..Len(regime)) \ {j} : regime[i] = regime[k]
  /\ \A i \in (1..Len(regime)) \ {j} : regime[i] # regime[j]

\* C19 (as claimed): a raw series that is X on every bar but one, wherever
\* that bar is, is filtered to X on every bar.
C19_NoiseSuppressed ==
  FilterCall =>
    \A j \in 1..Len(unit[1].regime) :
      LoneOutlier(unit[1].regime, j) =>
        \A i \in 1..Len(unit[1].regime) :
          i # j => unit[1].filtered[i] = unit[1].regime[i]
                   /\ unit[1].filtered[j] = unit[1].regime[i]

\* The raw series is the same label from bar k to its end.
ConstantFrom(regime, k) ==
  k \in 1..Len(regime) /\ \A i \in k..Len(regime) : regime[i] = regime[k]

\* C20: when the raw series is constantly Y from bar k on, the filtered
\* label is Y on every bar i >= k + min_bars + confirmation_bars.
C20_LagBound ==
  FilterCall =>
    \A k \in 1..Len(unit[1].regime) :
      ConstantFrom(unit[1].regime, k) =>
        \A i \in 1..Len(unit[1].regime) :
          i >= k + unit[1].min_bars + unit[1].confirmation_bars =>
            unit[1].filtered[i] = unit[1].regime[k]

\* C20 witness: a change of label at bar k > 1 that the filter delayed: the
\* bar before the bound still carries the old label, the bars from the bound
\* on carry the new one.
C20_Witness ==
  /\ FilterCall
  /\ \E k \in 2..Len(unit[1].regime) :
       LET bound == k + unit[1].min_bars + unit[1].confirmation_bars
       IN /\ ConstantFrom(unit[1].regime, k)
          /\ unit[1].regime[k - 1] # unit[1].regime[k]
          /\ bound <= Len(unit[1].regime)
          /\ unit[1].filtered[k] # unit[1].regime[k]
          /\ unit[1].filtered[bound] = unit[1].regime[k]

\* RegimeDetector.detect has just returned a series for the frame.
DetectCall == unit # <<>> /\ unit[1].op = "detect" /\ unit[1].ok

\* C21: the series detect returns has one label per row of the frame, at the
\* same positions, and every label (after the transition filter) is bull,
\* bear or sideways.
C21_OneLabelPerBar ==
  DetectCall =>
    /\ Len(unit[1].regime) = Len(unit[1].df)
    /\ DOMAIN unit[1].regime = DOMAIN unit[1].df
    /\ \A i \in 1..Len(unit[1].regime) : unit[1].regime[i] \in Regimes

\* C21 witness: a frame with a row of NaN averages (warm-up) and rows of
\* both trends was labelled, and two different labels survive the filter.
C21_Witness ==
  /\ DetectCall
  /\ \E i \in 1..Len(unit[1].df) : unit[1].df[i] = <<NaN, NaN, NaN>>
  /\ \E i, j \in 1..Len(unit[1].regime) :
       unit[1].regime[i] = "bull" /\ unit[1].regime[j] = "bear"

\* C22: when run() has completed, equity equals cash plus the unrealized pnl
\* of the open position at the final bar's price, and the terminal step has
\* closed nothing: cash, the ledger, the position list and the portfolio's
\* position are as the loop left them (a position open after the last bar is
\* still open).
C22_EndOfDataClosesNothing ==
  pc = "done" =>
    /\ pf.equity = pf.cash + UnrealizedPnl(pf.position, bar[1].price)
    /\ pf.cash = obs.terminal[1].cash
    /\ pf.trades = obs.terminal[1].trades
    /\ positions = obs.terminal[1].positions
    /\ pf.position = obs.terminal[1].position

\* C22 witness: the run completed with a position open whose unrealized pnl
\* at the final price is not zero.
C22_Witness ==
  /\ pc = "done" /\ positions # <<>> /\ pf.position # <<>>
  /\ UnrealizedPnl(pf.position, bar[1].price) # 0
  /\ pf.equity # pf.cash

\* C23 (as claimed): a position closed on a bar by the stop-loss or by an
\* exit signal has its stop unmodified on that bar: the stop it is closed
\* with, which the hard stop-loss comparison read, is the one carried in
\* from the previous bar.
C23_StopCheckedBeforeTrailing ==
  (AtBarBoundary /\ obs.had_position /\ obs.allowed /\ obs.closed) =>
    ~obs.stop_moved

\* cash when the last bar began: the bar of a close had a position open, so
\* update_equity sampled the account before the handler acted.
CashBeforeBar == Last(pf.equity_curve).cash

\* C24 (as claimed): for a long and a short position alike, the cash that
\* close_position credits equals entry_price * quantity + Trade.pnl, where
\* Trade.pnl is the directional price difference times quantity minus
\* commission minus slippage cost.
C24_CashCreditMatchesPnl ==
  (AtBarBoundary /\ obs.had_position /\ obs.closed) =>
    LET t == Last(pf.trades)
    IN /\ t.pnl = (IF t.direction = "long"
                   THEN (t.exit_price - t.entry_price) * t.quantity
                   ELSE (t.entry_price - t.exit_price) * t.quantity)
                  - t.commission - t.slippage * t.quantity
       /\ pf.cash - CashBeforeBar = t.entry_price * t.quantity + t.pnl

\* The sum of pnl over the Trades of the ledger.
LedgerPnl == SumSeq([i \in 1..Len(pf.trades) |-> pf.trades[i].pnl])

\* C25 (as claimed): with no position open, equity - initial_capital equals
\* the sum of pnl over the ledger.  Stated of the states where equity is
\* current (it has been recomputed since the last change of cash, so it
\* equals cash), the end of the run included.
C25_LedgerReconciles ==
  (pc # "failed" /\ pf.position = <<>> /\ pf.equity = pf.cash) =>
    pf.equity - InitialCapital = LedgerPnl

\* The position that was open when the last bar began: still open, or closed
\* on that bar into the last Trade.
HeldAtBarStart == IF positions # <<>> THEN positions[1] ELSE Last(pf.trades)

\* The second bar of the run found the position opened on the first bar, at
\* a price equal to its fill price.
SecondBarAtFillPrice ==
  /\ bars_done = 2 /\ pc # "failed" /\ obs.had_position
  /\ bar[1].price = HeldAtBarStart.entry_price

\* C26 (as claimed): on the bar after an entry, at a price equal to the fill
\* price, equity is the equity before the entry (the initial capital, for
\* the first entry of a run) minus the entry commission only, and the
\* breaker allows.
C26_OpeningIsNotALoss ==
  SecondBarAtFillPrice =>
    /\ obs.gate_equity
         = CashBeforeBar + HeldAtBarStart.entry_price * HeldAtBarStart.quantity
    /\ obs.allowed

\* C27 (as claimed): the risk manager's trade_history holds one record per
\* Trade of the ledger (capped at the last 1000), whichever path closed the
\* position.
C27_HistoryMatchesLedger ==
  pc # "failed" => Len(trade_history) = Min(Len(pf.trades), MaxHistory)

\* The filtered label of bar i when the series ends at bar i (nothing later
\* is known).
LabelFromPast(regime, i, min_bars, confirmation_bars) ==
  apply_transition_filter(SubSeq(regime, 1, i), min_bars, confirmation_bars)[i]

\* C28 (as claimed): the filtered label of bar i is the one the filter gives
\* from bars 1..i alone, whatever the later bars are.
C28_NoLookAhead ==
  FilterCall =>
    \A i \in 1..Len(unit[1].regime) :
      unit[1].filtered[i]
        = LabelFromPast(unit[1].regime, i, unit[1].min_bars,
                        unit[1].confirmation_bars)

\* The breaker has just answered a query.
BreakerCall == unit # <<>> /\ unit[1].op = "check_portfolio_risk"

\* The conditions of C29 on the arguments of the query.
CallDrawdownBreach ==
  (unit[1].initial_capital - unit[1].current_equity) * PctDen
    >= cfg.max_drawdown_num * unit[1].initial_capital
CallTradeCountBreach == unit[1].daily_trades >= cfg.max_daily_trades
CallNegativeLossBreach ==
  /\ unit[1].daily_pnl < 0
  /\ (0 - unit[1].daily_pnl) * PctDen >= cfg.daily_loss_num * unit[1].initial_capital
\* today's loss: |daily_pnl| when it is negative, else 0
CallLoss == IF unit[1].daily_pnl < 0 THEN 0 - unit[1].daily_pnl ELSE 0
CallLossBreach ==
  CallLoss * PctDen >= cfg.daily_loss_num * unit[1].initial_capital

\* C29 (as claimed): the breaker denies iff the drawdown is at or over its
\* limit, or today's pnl is negative and its size is at or over the daily
\* loss limit, or today's trade count is at or over its limit.
C29_DeniesIffAsStated ==
  BreakerCall =>
    (~unit[1].allowed
       <=> (CallDrawdownBreach \/ CallNegativeLossBreach \/ CallTradeCountBreach))

\* C29 (amended): the breaker denies iff the drawdown is at or over its
\* limit, or today's loss (|pnl| when pnl is negative, else 0) over capital
\* is at or over the daily loss limit, or today's trade count is at or over
\* its limit; equality at a limit denies; a non-negative pnl triggers the
\* daily-loss condition exactly when the daily loss limit is not positive.
C29_DeniesIff ==
  BreakerCall =>
    /\ ~unit[1].allowed
         <=> (CallDrawdownBreach \/ CallLossBreach \/ CallTradeCountBreach)
    /\ (unit[1].daily_pnl >= 0 /\ ~CallDrawdownBreach /\ ~CallTradeCountBreach)
         => (unit[1].allowed <=> cfg.daily_loss_num > 0)

\* C29 witness: a query exactly at the drawdown limit, with a non-negative
\* pnl under a positive daily loss limit and a trade count under its limit,
\* was denied.
C29_Witness ==
  /\ BreakerCall /\ ~unit[1].allowed
  /\ (unit[1].initial_capital - unit[1].current_equity) * PctDen
       = cfg.max_drawdown_num * unit[1].initial_capital
  /\ unit[1].daily_pnl >= 0 /\ cfg.daily_loss_num > 0
  /\ unit[1].daily_trades < cfg.max_daily_trades

\* C30: a position is created on a bar only if none was open when the bar
\* began, the breaker allowed, an entry signal fired and sizing returned a
\* quantity > 0; and on a bar whose entry signal was sized <= 0 or whose
\* position the position manager rejected, cash, the position list (with
\* the portfolio's position) and the ledger are as they were when the bar
\* began.  (No position was open then, so the equity the breaker read on
\* that bar is the cash the bar began with.)
C30_EntryGuard ==
  /\ obs.opened =>
       (~obs.had_position /\ obs.allowed /\ obs.entry_signal /\ obs.size > 0)
  /\ (bar # <<>> /\ obs.entry_signal /\ (obs.size <= 0 \/ obs.add_rejected)) =>
       /\ ~obs.opened /\ ~obs.had_position
       /\ positions = <<>> /\ pf.position = <<>>
       /\ pf.cash = obs.gate_equity
       /\ Len(pf.trades) = obs.trades_before

\* C30 witness: an entry signal fired and risk-percentage sizing returned 0
\* (the stop equals the entry price); nothing was opened.
C30_Witness ==
  /\ AtBarBoundary /\ obs.entry_signal /\ obs.size <= 0 /\ ~obs.opened
  /\ cfg.sizing_method = "risk_pct"
  /\ positions = <<>> /\ pf.cash = obs.gate_equity

\* C31: at every bar boundary (and when the run has completed) Portfolio's
\* position is set if and only if PositionManager holds a position, and it
\* is the same position: same direction, entry price, quantity and stop.
C31_HoldersAgree ==
  (pc # "failed") =>
    /\ (pf.position = <<>>) <=> (positions = <<>>)
    /\ positions # <<>> =>
         /\ Len(positions) = 1
         /\ pf.position[1].direction = positions[1].direction
         /\ pf.position[1].entry_price = positions[1].entry_price
         /\ pf.position[1].quantity = positions[1].quantity
         /\ pf.position[1].stop_loss = positions[1].stop_loss

\* C31 witness: a position stayed open over a bar that trailed its stop, and
\* an earlier position has already been closed.
C31_Witness ==
  /\ AtBarBoundary /\ obs.had_position /\ positions # <<>>
  /\ positions[1].stop_loss # obs.stop_before
  /\ pf.position # <<>> /\ pf.position[1].stop_loss = positions[1].stop_loss
  /\ Len(pf.trades) >= 1

\* C32: a bar makes at most one position transition: no bar both opens and
\* closes a position, and consecutive Trades of the ledger do not overlap:
\* each Trade's entry_time is later than the previous Trade's exit_time.
C32_OneTransitionPerBar ==
  /\ ~(obs.opened /\ obs.closed)
  /\ \A i \in 1..(Len(pf.trades) - 1) :
       pf.trades[i + 1].entry_time > pf.trades[i].exit_time

\* C32 witness: two Trades in the ledger, the second entered on the bar
\* right after the first was closed.
C32_Witness ==
  /\ Len(pf.trades) = 2
  /\ pf.trades[2].entry_time > pf.trades[1].exit_time
  /\ pf.trades[2].entry_time <= pf.trades[1].exit_time + MinutesPerDay

\* The stop of the position held when the last bar began was not hit on that
\* bar.  (A trailing update with ATR > 0 puts the stop strictly on the far
\* side of the price, so the comparison made after it gives the same answer
\* as the one on the stop carried in.)
StopNotHit ==
  IF HeldAtBarStart.direction = "long"
  THEN bar[1].price > obs.stop_before
  ELSE bar[1].price < obs.stop_before

\* C33 (as claimed): with regime_exit and time_exit not enabled, a position
\* whose stop is not hit on a bar where the breaker allows stays open on
\* that bar, whatever the bar's regime is.
C33_RegimeExitOptional ==
  (AtBarBoundary /\ ~cfg.regime_exit /\ ~cfg.time_exit
     /\ obs.had_position /\ obs.allowed /\ StopNotHit) =>
    (~obs.closed /\ positions # <<>>)

\* C34 (as claimed): with the time-based exit enabled and max_bars = N, no
\* position is still open after a bar at which it has been held more than N
\* bars.
C34_TimeExitCloses ==
  (AtBarBoundary /\ cfg.time_exit /\ positions # <<>>
     /\ positions[1].entry_idx # NoLoc) =>
    bar[1].idx - positions[1].entry_idx <= cfg.max_bars

\* C35 (as claimed): cash is never negative, so no entry was executed whose
\* cost (fill price * quantity + commission) exceeded the cash available.
C35_CashNeverNegative == pf.cash >= 0

\* C36 (as claimed): the equity curve that run() returns has strictly
\* increasing timestamps; no bar, the final bar included, contributes more
\* than one sample.
C36_CurveStrictlyOrdered ==
  \A i \in 1..(Len(pf.equity_curve) - 1) :
    pf.equity_curve[i].timestamp < pf.equity_curve[i + 1].timestamp

\* C37 (as claimed): WalkForwardAnalyzer.analyze terminates for every finite
\* date range and every positive in-sample/out-of-sample window length, in
\* rolling and in anchored mode.
C37_AnalyzeTerminates == <>(unit # <<>> /\ unit[1].pc = "returned")

\* The samples of the equity curve that carry the timestamp of the bar just
\* processed.
SamplesOfBar ==
  { i \in 1..Len(pf.equity_curve) : pf.equity_curve[i].timestamp = bar[1].ts }

\* C38: equity is recomputed on every processed bar, and the bar adds a
\* sample to the equity curve if and only if a position was open when it was
\* processed, or its index is a multiple of the stride, or it is the final
\* bar; a bar with no position, off the stride and not final adds none.
C38_SampledIffHeldOrStrideOrFinal ==
  AtBarBoundary =>
    /\ (~obs.had_position /\ ~obs.opened) => obs.gate_equity = pf.cash
    /\ IF obs.had_position \/ bar[1].idx % EquityStride = 0
          \/ bar[1].idx = LastIdx
       THEN Cardinality(SamplesOfBar) = 1
       ELSE SamplesOfBar = {}

C38_Witness ==
  /\ AtBarBoundary
  /\ ~obs.had_position
  /\ bar[1].idx % EquityStride # 0
  /\ bar[1].idx # LastIdx
  /\ pf.equity_curve # <<>>
  /\ pf.trades # <<>>
  /\ SamplesOfBar = {}

OpenCall == unit # <<>> /\ unit[1].op = "open_position"
OpenCallStop ==
  IF unit[1].signal.stop_loss # 0 THEN unit[1].signal.stop_loss
  ELSE unit[1].price
OpenCallLosingSide ==
  IF unit[1].signal.type = "long_entry" THEN OpenCallStop < unit[1].price
  ELSE OpenCallStop > unit[1].price

\* C39: risk-percentage sizing returns equity * risk_pct / |entry - stop|
\* when the stop is on the losing side of the entry (below it for a long,
\* above it for a short), and returns 0 when the stop is on the wrong side
\* of or equal to the entry price, in which case no position is opened.
C39_RiskPctSize ==
  OpenCall =>
    IF OpenCallLosingSide
    THEN /\ unit[1].w.obs.size * PctDen * Abs(unit[1].price - OpenCallStop)
              = unit[1].equity * cfg.risk_num
         /\ unit[1].w.obs.opened
         /\ Len(unit[1].w.positions) = 1
         /\ unit[1].w.positions[1].quantity = unit[1].w.obs.size
    ELSE /\ unit[1].w.obs.size = 0
         /\ ~unit[1].w.obs.opened
         /\ unit[1].w.positions = <<>>
         /\ unit[1].w.pf.position = <<>>
         /\ unit[1].w.pf.cash = unit[1].equity

C39_Witness ==
  /\ OpenCall
  /\ unit[1].signal.type = "short_entry"
  /\ unit[1].signal.stop_loss # 0
  /\ OpenCallStop < unit[1].price
  /\ unit[1].w.positions = <<>>

\* The bar just processed found no open position and the drawdown deny
\* condition holding.
HaltedBar ==
  AtBarBoundary /\ ~obs.had_position /\ DrawdownBreach(obs.gate_equity)

\* C40: a drawdown halt is permanent.  On a bar that finds no position and
\* the drawdown deny condition holding the breaker denies and nothing is
\* opened, and the next bar is such a bar again with the same equity; so the
\* breach never clears and no position is opened for the rest of the run.
C40_DrawdownHaltPermanent ==
  [][ (pc' = "running" /\ bars_done' # bars_done) =>
        /\ (HaltedBar)' =>
             /\ ~obs'.allowed
             /\ ~obs'.opened
             /\ positions' = <<>>
             /\ pf'.position = <<>>
             /\ pf'.cash = obs'.gate_equity
             /\ pf'.equity = obs'.gate_equity
        /\ HaltedBar =>
             /\ (HaltedBar)'
             /\ obs'.gate_equity = obs.gate_equity
             /\ pf'.trades = pf.trades ]_vars

\* The only trade was opened on the first bar and closed on the second; the
\* bars after it up to the final one found the account halted.
C40_Witness ==
  /\ HaltedBar
  /\ bar[1].idx = LastIdx
  /\ Len(pf.trades) = 1
  /\ pf.trades[1].entry_time = 0
  /\ pf.trades[1].duration_bars = 1
  /\ bar[1].price = 20000

====
